---------------------------- MODULE Spec2Model ----------------------------
(***************************************************************************)
(* LedgerLiveApi (src/lib/LedgerLiveApiSdk.ts): a JSON-RPC client/server   *)
(* pair bound to a Transport.  The state is the facade's optional          *)
(* serverAndClient field, the Transport's onMessage slot, the correlation  *)
(* state of every JSONRPCServerAndClient created by connect(), the         *)
(* promises handed to callers, and the observable history (logger calls    *)
(* and Transport.send calls, in program order).                            *)
(***************************************************************************)
EXTENDS Integers, Sequences, FiniteSets, TLC

VARIABLES
    serverAndClient,  \* this.serverAndClient: 0 = undefined, else the instance number
    onMessage,        \* transport.onMessage: 0 = undefined, else the instance it closes over
    created,          \* number of JSONRPCServerAndClient instances constructed so far
    clientId,         \* per instance: the JSONRPCClient's id counter
    idToResolveMap,   \* per instance: ids whose resolve function is still registered
    calls,            \* one record per _request() call: its promise and what feeds it
    lifecycle,        \* connect()/disconnect() calls and the lifecycle logs, in order
    disconnects,      \* one entry per disconnect() call: state of the promise it returned
    sent,             \* every payload passed to Transport.send, in order
    logger,           \* number of logger calls made so far, per level
    inbound,          \* number of messages the Transport delivered to onMessage
    lastRecv,         \* the last message delivered to onMessage and what became of it
    placeholders      \* the placeholder operations called so far and their promises

vars == <<serverAndClient, onMessage, created, clientId, idToResolveMap, calls,
          lifecycle, disconnects, sent, logger, inbound, lastRecv, placeholders>>

-----------------------------------------------------------------------------
(* Bounds of the exploration *)

MaxCalls == 2         \* _request() calls
MaxConnects == 2      \* connect() calls
MaxDisconnects == 1   \* disconnect() calls
MaxInbound == 2       \* messages the Transport delivers to onMessage
MaxInboundId == 2     \* ids the host may put in a message: 1..MaxInboundId
MaxPlaceholders == 1  \* placeholder operations called
PlaceholderDepth == 4 \* in SpecPlaceholder: bridge steps taken besides the placeholders
MaxAccounts == 2      \* in SpecFacade: account records in one "account.list" response

-----------------------------------------------------------------------------
(* Values *)

Instances == 0..MaxConnects

\* Methods the facade passes to _request (two of the six; _request treats all alike)
Methods == {"account.list", "account.receive"}

\* Methods the host may call on this side
InboundMethods == {"account.list", "ping"}

\* Raw result payloads the host may answer with
Results == {"0xABC", "0xDEF"}

\* Error messages the host may answer with
HostErrors == {"User denied"}

\* Message of the Error a failing Transport.send rejects with
SendFailure == "send failed"

NotConnectedMessage == "Ledger Live API not connected"

NotImplementedMessage == "Function is not implemented yet"

\* Arguments a placeholder operation may be called with
PlaceholderArgs == {"acc-1", "acc-2"}

PlaceholderOps == {"estimateTransactionFees", "synchronizeAccount", "initExchange",
                   "completeExchange", "getDeviceInfo", "listApps", "bridgeApp",
                   "bridgeDashboard"}

\* JSON-RPC error codes
MethodNotFoundCode == -32601
DefaultErrorCode == 0
HostErrorCodes == {-32000}

InboundIds == 1..MaxInboundId

\* A JSON-RPC payload: kind is "request" (val = method), "result" (val = payload),
\* "error" (val = message, code) or "invalid" (neither request nor response).
Payload(kind, id, val, code) == [kind |-> kind, id |-> id, val |-> val, code |-> code]

NoResponse == Payload("none", 0, "", 0)

InboundMessages ==
    {Payload("result", i, r, 0) : i \in InboundIds, r \in Results}
    \cup {Payload("error", i, e, c) : i \in InboundIds, e \in HostErrors, c \in HostErrorCodes}
    \cup {Payload("request", i, m, 0) : i \in InboundIds, m \in InboundMethods}
    \cup {Payload("invalid", 0, "", 0)}

Pending == [state |-> "pending", value |-> ""]
Resolved(v) == [state |-> "resolved", value |-> v]
Rejected(v) == [state |-> "rejected", value |-> v]

\* What a _request() call or a lifecycle operation did, in program order
ApiEvent(op) == [ev |-> op, lvl |-> "", text |-> ""]
LogEvent(lvl, text) == [ev |-> "log", lvl |-> lvl, text |-> text]
SendEvent == [ev |-> "send", lvl |-> "", text |-> ""]

\* disconnect() was called, and whether its Transport.disconnect() fails
DisconnectEvent(ok) == [ev |-> "disconnect", lvl |-> "", text |-> IF ok THEN "" ELSE "fails"]

\* The JavaScript value undefined, where an object is expected
Undefined == [undefined |-> TRUE]

\* The JavaScript object {}
EmptyObject == [empty |-> TRUE]

\* Domain values of the facade operations.  An amount is a decimal string on the
\* wire and a BigNumber in memory
AccountIds == {"acc-1", "acc-2"}
WireAmounts == {"0", "100"}
BigNumbers == {"BigNumber(0)", "BigNumber(100)"}
RawAccounts == [id : AccountIds, balance : WireAmounts]
RawAccountLists == UNION {[1..n -> RawAccounts] : n \in 0..MaxAccounts}
RawSignedTransactions == [signature : {"sig-1"}, fee : WireAmounts]
Transactions == [family : {"bitcoin"}, amount : BigNumbers, recipient : {"0xABC"}]
SignedTransactions == [signature : {"sig-1"}, fee : BigNumbers]
CurrencyLists == {<<>>, <<[ticker |-> "BTC", name |-> "Bitcoin"]>>}

\* Arguments the optional parameter objects are called with
RequestAccountArgs == {Undefined, [currencies |-> <<"bitcoin">>, allowAddAccount |-> TRUE]}
ListCurrenciesArgs == {Undefined, [ticker |-> "BTC"]}
SignTransactionArgs == {Undefined, [useApp |-> "Bitcoin"]}

\* What the host answers a method with when it answers with a result
ResultsOf(method) ==
    CASE method = "account.request" -> RawAccounts
      [] method = "account.list" -> RawAccountLists
      [] method = "currency.list" -> CurrencyLists
      [] method = "transaction.sign" -> RawSignedTransactions
      [] OTHER -> Results

\* The logger after the calls in events
Logged(lg, events) ==
    [l \in DOMAIN lg |-> lg[l] + Cardinality({k \in DOMAIN events :
                                     events[k].ev = "log" /\ events[k].lvl = l})]

-----------------------------------------------------------------------------
(* Pure parts of the bridge *)

\* NotConnected without the guard: every call is dispatched
NotConnected_unguarded(sc) == FALSE

\* _request line 49: !this.serverAndClient
NotConnected(sc) == sc = 0

\* JSONRPCClient._createID: ++this.id
CreateID(counter) == counter + 1

\* ClientLookup matching in send order: the oldest registered resolve function is
\* taken whatever id the response carries
ClientLookup_fifo(map, id) ==
    IF map = {} THEN {} ELSE {CHOOSE x \in map : \A y \in map : x <= y}

\* ClientLookup falling back to the newest registered resolve function when the id
\* is unknown
ClientLookup_fallback(map, id) ==
    IF id \in map THEN {id}
    ELSE IF map = {} THEN {} ELSE {CHOOSE x \in map : \A y \in map : x >= y}

\* JSONRPCClient.receive: this.idToResolveMap.get(response.id); the set of ids whose
\* resolve function the response reaches (empty when there is none)
ClientLookup(map, id) == IF id \in map THEN {id} ELSE {}

\* RequestOutcome that takes every response for a result
RequestOutcome_resultOnly(response) == Resolved(response.val)

\* JSONRPCClient.request's continuation: a result resolves with the raw payload,
\* an error rejects with an Error carrying the error's message
RequestOutcome(response) ==
    IF response.kind = "result" THEN Resolved(response.val) ELSE Rejected(response.val)

\* AwaitRequest that has no continuation for a rejected send
AwaitRequest_resolvedOnly(send, response) ==
    IF send = "resolved" /\ response.kind # "none" THEN RequestOutcome(response) ELSE Pending

\* _request lines 56-61: the awaited request settles once Transport.send has settled
\* and a response has been handed to the call's resolve function
AwaitRequest(send, response) ==
    IF send # "pending" /\ response.kind # "none" THEN RequestOutcome(response) ELSE Pending

\* SettleLog that writes nothing when the awaited request fails
SettleLog_silentError(outcome) ==
    IF outcome.state = "resolved" THEN <<LogEvent("log", "response")>> ELSE <<>>

\* _request lines 57 and 60: the log written when the awaited request settles
SettleLog(outcome) ==
    IF outcome.state = "resolved" THEN <<LogEvent("log", "response")>>
    ELSE IF outcome.state = "rejected" THEN <<LogEvent("warn", "error")>>
    ELSE <<>>

\* _request lines 58 and 61: return result / throw error, once the log is written
SettleReturn(outcome) ==
    IF outcome.state = "resolved" THEN <<ApiEvent("return")>>
    ELSE IF outcome.state = "rejected" THEN <<ApiEvent("throw")>>
    ELSE <<>>

\* ServerReceive that answers without the request's id
ServerReceive_noId(request) == Payload("error", 0, "Method not found", MethodNotFoundCode)

\* JSONRPCServer.receive with no method registered: a request carrying an id is
\* answered "method not found" under the same id
ServerReceive(request) == Payload("error", request.id, "Method not found", MethodNotFoundCode)

\* DeleteSession that keeps the reference (dropped only after the await)
DeleteSession_kept(sc) == sc

\* disconnect line 84: delete this.serverAndClient
DeleteSession(sc) == 0

\* DisconnectAwait that swallows the Transport's failure
DisconnectAwait_swallowed(ok) == "pending"

\* disconnect line 85: await this.transport.disconnect(); the promise disconnect()
\* returned is rejected when the Transport fails, and waits for it otherwise
DisconnectAwait(ok) == IF ok THEN "pending" ELSE "rejected"

\* DisconnectCalls that rejects the calls of the dropped session
DisconnectCalls_rejectAll(cs, sc) ==
    [n \in DOMAIN cs |->
        IF cs[n].inst = sc /\ cs[n].outcome.state = "pending"
        THEN [cs[n] EXCEPT !.outcome = Rejected("disconnected"),
                           !.result = Rejected("disconnected")]
        ELSE cs[n]]

\* disconnect lines 83-87: the calls of the dropped session are not touched
DisconnectCalls(cs, sc) == cs

\* Dispatch that puts the newest payload first
Dispatch_lifo(queue, entry) == <<entry>> \o queue

\* JSONRPCClient.request: the payload goes to Transport.send when request() is called
Dispatch(queue, entry) == Append(queue, entry)

\* PlaceholderOutcome of an operation routed through _request
PlaceholderOutcome_viaRequest(op, arg, sc) ==
    IF NotConnected(sc) THEN Rejected(NotConnectedMessage) ELSE Pending

\* lines 173-245: throw new Error('Function is not implemented yet'), whatever the
\* operation, its argument and this.serverAndClient
PlaceholderOutcome(op, arg, sc) == Rejected(NotImplementedMessage)

\* ./serializers: decimal string <-> BigNumber
ParseAmount(s) == CASE s = "0" -> "BigNumber(0)" [] s = "100" -> "BigNumber(100)"

FormatAmount(n) == CASE n = "BigNumber(0)" -> "0" [] n = "BigNumber(100)" -> "100"

\* ./serializers deserializeAccount: the wire record with its amount parsed
DeserializeAccount(raw) == [id |-> raw.id, balance |-> ParseAmount(raw.balance)]

\* ./serializers serializeTransaction: the transaction with its amount formatted
SerializeTransaction(transaction) ==
    [family |-> transaction.family, amount |-> FormatAmount(transaction.amount),
     recipient |-> transaction.recipient]

\* ./serializers deserializeSignedTransaction
DeserializeSignedTransaction(raw) ==
    [signature |-> raw.signature, fee |-> ParseAmount(raw.fee)]

\* ./serializers serializeSignedTransaction
SerializeSignedTransaction(signedTransaction) ==
    [signature |-> signedTransaction.signature, fee |-> FormatAmount(signedTransaction.fee)]

\* lines 98, 121, 146: params || {}
OrEmpty(params) == IF params = Undefined THEN EmptyObject ELSE params

\* ListAccountsResult that returns the accounts newest first
ListAccountsResult_reversed(rawAccounts) ==
    [i \in 1..Len(rawAccounts) |-> DeserializeAccount(rawAccounts[Len(rawAccounts) + 1 - i])]

\* listAccounts line 111: rawAccounts.map(deserializeAccount)
ListAccountsResult(rawAccounts) ==
    [i \in 1..Len(rawAccounts) |-> DeserializeAccount(rawAccounts[i])]

\* line 131: { accountId }
ReceiveParams(accountId) == [accountId |-> accountId]

\* SignTransactionParams that passes the transaction as it was given
SignTransactionParams_raw(accountId, transaction, params) ==
    [accountId |-> accountId, transaction |-> transaction, params |-> OrEmpty(params)]

\* lines 143-147: { accountId, transaction: serializeTransaction(transaction),
\* params: params || {} }
SignTransactionParams(accountId, transaction, params) ==
    [accountId |-> accountId, transaction |-> SerializeTransaction(transaction),
     params |-> OrEmpty(params)]

\* lines 160-163: { accountId, signedTransaction: serializeSignedTransaction(...) }
BroadcastParams(accountId, signedTransaction) ==
    [accountId |-> accountId,
     signedTransaction |-> SerializeSignedTransaction(signedTransaction)]

\* What the facade operation makes of the settled _request(): lines 100, 111 and
\* 149 pass a result through a deserializer, the other operations return the
\* promise of _request(); a rejection passes through every operation
FacadeReturn(op, outcome) ==
    IF outcome.state # "resolved" THEN outcome
    ELSE CASE op = "requestAccount" -> Resolved(DeserializeAccount(outcome.value))
           [] op = "listAccounts" -> Resolved(ListAccountsResult(outcome.value))
           [] op = "signTransaction" -> Resolved(DeserializeSignedTransaction(outcome.value))
           [] OTHER -> outcome

\* a call after its send promise settled as send or a response was handed to its
\* resolve function: lines 56-61 and the operation's continuation
Settle(c, send, response) ==
    LET out == AwaitRequest(send, response)
    IN  [c EXCEPT !.send = send, !.response = response, !.outcome = out,
                  !.events = @ \o SettleLog(out) \o SettleReturn(out),
                  !.result = FacadeReturn(c.op, out)]

\* the call whose resolve function an instance keeps under an id
CallOf(inst, id) == CHOOSE n \in DOMAIN calls : calls[n].inst = inst /\ calls[n].id = id

-----------------------------------------------------------------------------
(* Initial state: after the constructor *)

Init ==
    /\ serverAndClient = 0
    /\ onMessage = 0
    /\ created = 0
    /\ clientId = [s \in Instances |-> 0]
    /\ idToResolveMap = [s \in Instances |-> {}]
    /\ calls = <<>>
    /\ lifecycle = <<>>
    /\ disconnects = <<>>
    /\ sent = <<>>
    /\ logger = [l \in {"error", "warn", "log"} |-> 0]
    /\ inbound = 0
    /\ lastRecv = [inst |-> 0, msg |-> NoResponse, hit |-> {}, ret |-> ""]
    /\ placeholders = <<>>

-----------------------------------------------------------------------------
(* connect(): lines 68-78.  ok = FALSE: Transport.connect() throws *)

Connect(ok) ==
    LET events == <<ApiEvent("connect")>>
                  \o (IF ok THEN <<LogEvent("log", "connected")>> ELSE <<>>)
    IN  /\ created < MaxConnects
        /\ created' = created + 1
        /\ onMessage' = created + 1
        /\ serverAndClient' = IF ok THEN created + 1 ELSE serverAndClient
        /\ lifecycle' = lifecycle \o events
        /\ logger' = Logged(logger, events)
        /\ UNCHANGED <<clientId, idToResolveMap, calls, disconnects, sent, inbound,
                       lastRecv, placeholders>>

(* disconnect(): lines 83-85, up to the await.  ok = FALSE: Transport.disconnect()
   throws or returns a promise that rejects *)
Disconnect(ok) ==
    /\ Len(disconnects) < MaxDisconnects
    /\ serverAndClient' = DeleteSession(serverAndClient)
    /\ calls' = DisconnectCalls(calls, serverAndClient)
    /\ disconnects' = Append(disconnects, DisconnectAwait(ok))
    /\ lifecycle' = Append(lifecycle, DisconnectEvent(ok))
    /\ UNCHANGED <<onMessage, created, clientId, idToResolveMap, sent, logger,
                   inbound, lastRecv, placeholders>>

(* disconnect(): line 86, after the awaited Transport.disconnect() completed *)
DisconnectDone(d) ==
    /\ d \in DOMAIN disconnects
    /\ disconnects[d] = "pending"
    /\ disconnects' = [disconnects EXCEPT ![d] = "resolved"]
    /\ lifecycle' = Append(lifecycle, LogEvent("log", "disconnected"))
    /\ logger' = Logged(logger, <<LogEvent("log", "disconnected")>>)
    /\ UNCHANGED <<serverAndClient, onMessage, created, clientId, idToResolveMap,
                   calls, sent, inbound, lastRecv, placeholders>>

(* An operation op calling _request(method, params): lines 48-56, up to the await;
   JSONRPCClient.request calls Transport.send before it returns *)
Request(op, args, method, params) ==
    LET n == Len(calls) + 1
        s == serverAndClient
        id == CreateID(clientId[s])
        refused == <<LogEvent("error", "not connected"), ApiEvent("throw")>>
        issued == <<LogEvent("log", "request"), SendEvent>>
    IN  /\ Len(calls) < MaxCalls
        /\ IF NotConnected(serverAndClient)
           THEN /\ calls' = Append(calls, [inst |-> 0, id |-> 0, op |-> op, args |-> args,
                                           method |-> method, params |-> params,
                                           at |-> Len(lifecycle), events |-> refused,
                                           send |-> "none", response |-> NoResponse,
                                           outcome |-> Rejected(NotConnectedMessage),
                                           result |-> Rejected(NotConnectedMessage)])
                /\ logger' = Logged(logger, refused)
                /\ UNCHANGED <<clientId, idToResolveMap, sent>>
           ELSE /\ clientId' = [clientId EXCEPT ![s] = id]
                /\ idToResolveMap' = [idToResolveMap EXCEPT ![s] = @ \cup {id}]
                /\ calls' = Append(calls, [inst |-> s, id |-> id, op |-> op, args |-> args,
                                           method |-> method, params |-> params,
                                           at |-> Len(lifecycle), events |-> issued,
                                           send |-> "pending", response |-> NoResponse,
                                           outcome |-> Pending, result |-> Pending])
                /\ logger' = Logged(logger, issued)
                /\ sent' = Dispatch(sent, [call |-> n, params |-> params,
                                           msg |-> Payload("request", id, method, 0)])
        /\ UNCHANGED <<serverAndClient, onMessage, created, lifecycle, disconnects,
                       inbound, lastRecv, placeholders>>

(* _request(method) called with no params *)
Invoke(method) == Request("_request", [method |-> method], method, Undefined)

(* The implemented operations: lines 97-164 *)
RequestAccount(params) ==
    Request("requestAccount", [params |-> params], "account.request", OrEmpty(params))

ListAccounts == Request("listAccounts", EmptyObject, "account.list", Undefined)

ListCurrencies(params) ==
    Request("listCurrencies", [params |-> params], "currency.list", OrEmpty(params))

Receive(accountId) ==
    Request("receive", [accountId |-> accountId], "account.receive",
            ReceiveParams(accountId))

SignTransaction(accountId, transaction, params) ==
    Request("signTransaction",
            [accountId |-> accountId, transaction |-> transaction, params |-> params],
            "transaction.sign", SignTransactionParams(accountId, transaction, params))

BroadcastSignedTransaction(accountId, signedTransaction) ==
    Request("broadcastSignedTransaction",
            [accountId |-> accountId, signedTransaction |-> signedTransaction],
            "transaction.broadcast", BroadcastParams(accountId, signedTransaction))

(* The promise Transport.send returned for call n resolves *)
SendResolve(n) ==
    /\ n \in DOMAIN calls
    /\ calls[n].send = "pending"
    /\ LET c == Settle(calls[n], "resolved", calls[n].response)
       IN  /\ calls' = [calls EXCEPT ![n] = c]
           /\ logger' = Logged(logger, SettleLog(c.outcome))
    /\ UNCHANGED <<serverAndClient, onMessage, created, clientId, idToResolveMap,
                   lifecycle, disconnects, sent, inbound, lastRecv, placeholders>>

(* The promise Transport.send returned for call n rejects: JSONRPCClient.requestAdvanced
   hands its own client an error response for the request's id *)
SendReject(n) ==
    /\ n \in DOMAIN calls
    /\ calls[n].send = "pending"
    /\ LET c == calls[n]
           hit == ClientLookup(idToResolveMap[c.inst], c.id)
           resp == IF hit # {} THEN Payload("error", c.id, SendFailure, DefaultErrorCode)
                   ELSE c.response
           d == Settle(c, "rejected", resp)
       IN  /\ idToResolveMap' = [idToResolveMap EXCEPT ![c.inst] = @ \ hit]
           /\ calls' = [calls EXCEPT ![n] = d]
           /\ logger' = Logged(logger, SettleLog(d.outcome))
    /\ UNCHANGED <<serverAndClient, onMessage, created, clientId, lifecycle,
                   disconnects, sent, inbound, lastRecv, placeholders>>

(* The Transport delivers msg to onMessage: line 74, serverAndClient.receiveAndSend *)
Deliver(msg) ==
    LET s == onMessage
        hit == IF msg.kind \in {"result", "error"}
               THEN ClientLookup(idToResolveMap[s], msg.id) ELSE {}
    IN  /\ onMessage # 0
        /\ inbound < MaxInbound
        /\ inbound' = inbound + 1
        /\ lastRecv' = [inst |-> s, msg |-> msg, hit |-> hit,
                        ret |-> IF msg.kind = "invalid" THEN "rejected" ELSE "resolved"]
        /\ IF hit # {}
           THEN \E id \in hit :
                  LET n == CallOf(s, id)
                      c == Settle(calls[n], calls[n].send, msg)
                  IN  /\ idToResolveMap' = [idToResolveMap EXCEPT ![s] = @ \ {id}]
                      /\ calls' = [calls EXCEPT ![n] = c]
                      /\ logger' = Logged(logger, SettleLog(c.outcome))
                      /\ UNCHANGED sent
           ELSE /\ sent' = IF msg.kind = "request"
                           THEN Append(sent, [call |-> 0, params |-> Undefined,
                                              msg |-> ServerReceive(msg)])
                           ELSE sent
                /\ UNCHANGED <<idToResolveMap, calls, logger>>
        /\ UNCHANGED <<serverAndClient, onMessage, created, clientId, lifecycle,
                       disconnects, placeholders>>

(* A placeholder operation: lines 173-245 *)
Placeholder(op, arg) ==
    /\ Len(placeholders) < MaxPlaceholders
    /\ placeholders' = Append(placeholders,
                              [op |-> op, arg |-> arg,
                               outcome |-> PlaceholderOutcome(op, arg, serverAndClient)])
    /\ UNCHANGED <<serverAndClient, onMessage, created, clientId, idToResolveMap, calls,
                   lifecycle, disconnects, sent, logger, inbound, lastRecv>>

-----------------------------------------------------------------------------

Next ==
    \/ \E ok \in BOOLEAN : Connect(ok)
    \/ \E ok \in BOOLEAN : Disconnect(ok)
    \/ \E d \in 1..MaxDisconnects : DisconnectDone(d)
    \/ \E m \in Methods : Invoke(m)
    \/ \E n \in 1..MaxCalls : SendResolve(n)
    \/ \E n \in 1..MaxCalls : SendReject(n)
    \/ \E msg \in InboundMessages : Deliver(msg)

Spec == Init /\ [][Next]_vars

\* The bridge together with the placeholder operations; the bridge's own calls are
\* explored up to PlaceholderDepth
NextPlaceholder ==
    \/ \E op \in PlaceholderOps, arg \in PlaceholderArgs : Placeholder(op, arg)
    \/ (Len(lifecycle) + Len(calls) + inbound < PlaceholderDepth /\ Next)

SpecPlaceholder == Init /\ [][NextPlaceholder]_vars

\* what the host may answer with under id i: when a call of the bound instance
\* waits under i, a result of the shape its method returns
ResultsFor(i) ==
    IF onMessage # 0 /\ i \in idToResolveMap[onMessage]
    THEN ResultsOf(calls[CallOf(onMessage, i)].method)
    ELSE Results

\* The implemented facade operations over the bridge, with a host that answers each
\* method with a result of that method's shape or with an error
NextFacade ==
    \/ Connect(TRUE)
    \/ \E params \in RequestAccountArgs : RequestAccount(params)
    \/ ListAccounts
    \/ \E params \in ListCurrenciesArgs : ListCurrencies(params)
    \/ \E accountId \in AccountIds : Receive(accountId)
    \/ \E accountId \in AccountIds, transaction \in Transactions,
          params \in SignTransactionArgs : SignTransaction(accountId, transaction, params)
    \/ \E accountId \in AccountIds, signedTransaction \in SignedTransactions :
          BroadcastSignedTransaction(accountId, signedTransaction)
    \/ \E n \in 1..MaxCalls : SendResolve(n)
    \/ \E n \in 1..MaxCalls : SendReject(n)
    \/ \E i \in InboundIds : \E r \in ResultsFor(i) : Deliver(Payload("result", i, r, 0))
    \/ \E i \in InboundIds, e \in HostErrors, c \in HostErrorCodes :
          Deliver(Payload("error", i, e, c))

SpecFacade == Init /\ [][NextFacade]_vars

-----------------------------------------------------------------------------
(* Helpers of the properties *)

Dispatched(n) == calls[n].inst # 0

\* call n was issued with no connect() called before it
NoConnectBefore(n) == \A k \in 1..calls[n].at : lifecycle[k].ev # "connect"

\* positions of the connect()/disconnect() calls among the first k lifecycle events
ApiPositions(k) == {j \in 1..k : lifecycle[j].ev \in {"connect", "disconnect"}}

\* call n was issued after a disconnect() with no connect() in between
AfterDisconnect(n) ==
    /\ ApiPositions(calls[n].at) # {}
    /\ LET last == CHOOSE j \in ApiPositions(calls[n].at) :
                       \A i \in ApiPositions(calls[n].at) : i <= j
       IN  lifecycle[last].ev = "disconnect"

\* number of payloads handed to Transport.send for call n
SendsOf(n) == Cardinality({k \in DOMAIN sent : sent[k].call = n})

RefusedNotConnected(n) ==
    /\ calls[n].outcome = Rejected(NotConnectedMessage)
    /\ SendsOf(n) = 0
    /\ calls[n].send = "none"
    /\ \A s \in Instances : calls[n].id \notin idToResolveMap[s]

-----------------------------------------------------------------------------
(* C1: every call's promise is fed by a response carrying that call's id, and
   settles with what that response says; never with a response carrying another
   call's id, whatever the order the responses arrive in *)
C1_MatchedById ==
    \A n \in DOMAIN calls :
        /\ calls[n].response.kind # "none" => calls[n].response.id = calls[n].id
        /\ calls[n].outcome.state # "pending" /\ Dispatched(n) =>
              /\ calls[n].response.id = calls[n].id
              /\ calls[n].outcome.value = calls[n].response.val

\* two calls of one instance, answered in reverse order with different payloads
C1_Witness ==
    /\ Len(calls) >= 2
    /\ calls[1].inst = calls[2].inst /\ Dispatched(1)
    /\ calls[1].outcome = Resolved("0xDEF")
    /\ calls[2].outcome = Resolved("0xABC")
    /\ inbound = 2 /\ lastRecv.msg.id = calls[1].id /\ lastRecv.hit = {calls[1].id}

(* C2: a _request() issued with no connect() before it rejects with the
   not-connected error, Transport.send is never called for it and no resolve
   function is registered for it *)
C2_NotConnectedNoIO ==
    \A n \in DOMAIN calls : NoConnectBefore(n) => RefusedNotConnected(n)

C2_Witness ==
    \E n \in DOMAIN calls :
        /\ NoConnectBefore(n)
        /\ calls[n].outcome = Rejected(NotConnectedMessage)
        /\ logger["error"] > 0

(* C3: a _request() issued after disconnect() with no connect() in between rejects
   with the not-connected error and nothing is sent for it, also while the
   awaited Transport.disconnect() is still pending *)
C3_AfterDisconnect ==
    \A n \in DOMAIN calls : AfterDisconnect(n) => RefusedNotConnected(n)

\* a session was active, disconnect() dropped it and is still awaiting the
\* Transport, and a call issued then was refused
C3_Witness ==
    \E n \in DOMAIN calls :
        /\ AfterDisconnect(n)
        /\ \E k \in 1..calls[n].at : lifecycle[k] = LogEvent("log", "connected")
        /\ lifecycle[calls[n].at].ev = "disconnect"
        /\ Len(disconnects) = 1 /\ disconnects[1] = "pending"
        /\ calls[n].outcome = Rejected(NotConnectedMessage)

(* C4 as stated: whenever the promise Transport.send returned for a call rejects,
   that call's promise rejects with the send failure; nothing is sent again, the
   session stays, every other call and its registered resolve function is untouched *)
SendRejectStep(n) == calls[n].send = "pending" /\ calls'[n].send = "rejected"

SendRejectLeavesRest(n) ==
    /\ sent' = sent
    /\ SendsOf(n) = 1
    /\ serverAndClient' = serverAndClient
    /\ onMessage' = onMessage
    /\ \A m \in DOMAIN calls \ {n} : calls'[m] = calls[m]
    /\ \A s \in Instances :
         idToResolveMap'[s] = idToResolveMap[s] \ (IF s = calls[n].inst THEN {calls[n].id} ELSE {})

C4_SendFailureAlwaysRejects ==
    [][\A n \in DOMAIN calls : SendRejectStep(n) =>
          /\ calls'[n].outcome = Rejected(SendFailure)
          /\ SendRejectLeavesRest(n)]_vars

(* C4 amended: when the send promise of a call rejects and no response for the call
   has been delivered yet, the call's promise rejects with the send failure; when a
   response carrying the call's id was delivered first, the promise settles by that
   response and the send failure is dropped.  In both cases nothing is sent again,
   the session stays, every other call is untouched *)
C4_SendFailure ==
    [][\A n \in DOMAIN calls : SendRejectStep(n) =>
          /\ calls[n].response.kind = "none" => calls'[n].outcome = Rejected(SendFailure)
          /\ calls[n].response.kind = "result" =>
                calls'[n].outcome = Resolved(calls[n].response.val)
          /\ calls[n].response.kind = "error" =>
                calls'[n].outcome = Rejected(calls[n].response.val)
          /\ SendRejectLeavesRest(n)]_vars

\* the first call's send failed and rejected it; a call issued on the same session
\* was still answered by its own response
C4_Witness ==
    /\ Len(calls) >= 2
    /\ calls[1].send = "rejected" /\ calls[1].outcome = Rejected(SendFailure)
    /\ calls[2].inst = calls[1].inst /\ serverAndClient = calls[1].inst
    /\ calls[2].send = "resolved" /\ calls[2].outcome = Resolved("0xABC")

(* C5: when the Transport delivers a result or an error whose id has a registered
   resolve function, that message becomes the call's response and the id leaves the
   mapping; once the call's send has settled, a result has resolved the promise
   with the raw payload and a host error has rejected it with the host's message *)
DeliverStep == inbound' = inbound + 1

C5_SettledByResponse ==
    /\ [](\A n \in DOMAIN calls : Dispatched(n) /\ calls[n].response.kind # "none" =>
            /\ calls[n].id \notin idToResolveMap[calls[n].inst]
            /\ calls[n].send # "pending" /\ calls[n].response.kind = "result" =>
                  calls[n].outcome = Resolved(calls[n].response.val)
            /\ calls[n].send # "pending" /\ calls[n].response.kind = "error" =>
                  calls[n].outcome = Rejected(calls[n].response.val))
    /\ [][DeliverStep =>
            LET msg == lastRecv'.msg
            IN  msg.kind \in {"result", "error"} /\ msg.id \in idToResolveMap[onMessage] =>
                  /\ calls'[CallOf(onMessage, msg.id)].response = msg
                  /\ idToResolveMap'[onMessage] = idToResolveMap[onMessage] \ {msg.id}]_vars

\* one call resolved with the host's payload, another rejected with the host's error
C5_Witness ==
    /\ Len(calls) >= 2
    /\ calls[1].response = Payload("result", calls[1].id, "0xDEF", 0)
    /\ calls[1].outcome = Resolved("0xDEF")
    /\ calls[2].response.kind = "error" /\ calls[2].response.val = "User denied"
    /\ calls[2].send = "resolved" /\ calls[2].outcome = Rejected("User denied")
    /\ idToResolveMap[calls[1].inst] = {} /\ calls[2].inst = calls[1].inst

(* C6 as stated: a response whose id has no registered resolve function is logged
   and dropped: the handler's promise resolves, no call changes, the mapping and the
   session stay, nothing is sent *)
UnmatchedStep ==
    /\ DeliverStep
    /\ lastRecv'.msg.kind \in {"result", "error"}
    /\ lastRecv'.msg.id \notin idToResolveMap[onMessage]

UnmatchedDropped ==
    /\ lastRecv'.ret = "resolved"
    /\ calls' = calls
    /\ idToResolveMap' = idToResolveMap
    /\ serverAndClient' = serverAndClient
    /\ onMessage' = onMessage
    /\ sent' = sent

C7_MethodNotFound ==
    [][DeliverStep /\ lastRecv'.msg.kind = "request" =>
          /\ Len(sent') = Len(sent) + 1
          /\ \A k \in DOMAIN sent : sent'[k] = sent[k]
          /\ sent'[Len(sent')].call = 0
          /\ sent'[Len(sent')].msg.kind = "error"
          /\ sent'[Len(sent')].msg.code = MethodNotFoundCode
          /\ sent'[Len(sent')].msg.id = lastRecv'.msg.id
          /\ calls' = calls
          /\ idToResolveMap' = idToResolveMap]_vars

\* a request for a method this side itself calls arrived while a call was pending
C7_Witness ==
    /\ lastRecv.msg = Payload("request", 2, "account.list", 0)
    /\ Len(sent) >= 2
    /\ sent[Len(sent)].call = 0
    /\ sent[Len(sent)].msg = Payload("error", 2, "Method not found", MethodNotFoundCode)
    /\ \E n \in DOMAIN calls : calls[n].inst = lastRecv.inst /\ calls[n].outcome = Pending

(* C8 as stated: a call still unsettled when disconnect() tears its session down is
   rejected: once that disconnect() has returned, the call's promise is rejected *)
\* the instance this.serverAndClient holds after the first k lifecycle events
ConnectedAt(j) ==
    /\ lifecycle[j].ev = "connect"
    /\ j < Len(lifecycle)
    /\ lifecycle[j + 1] = LogEvent("log", "connected")

ActiveAfter(k) ==
    LET changes == {j \in 1..k : lifecycle[j].ev = "disconnect" \/ ConnectedAt(j)}
    IN  IF changes = {} THEN 0
        ELSE LET last == CHOOSE j \in changes : \A i \in changes : i <= j
             IN  IF lifecycle[last].ev = "disconnect" THEN 0
                 ELSE Cardinality({j \in 1..last : lifecycle[j].ev = "connect"})

\* call n was issued on a session that a later disconnect() tore down, and that
\* disconnect() has completed
TornDown(n) ==
    \E k \in DOMAIN lifecycle :
        /\ lifecycle[k].ev = "disconnect"
        /\ k > calls[n].at
        /\ ActiveAfter(k - 1) = calls[n].inst
        /\ disconnects[Cardinality({j \in 1..k : lifecycle[j].ev = "disconnect"})] = "resolved"

C8_RejectedAtTeardown ==
    \A n \in DOMAIN calls :
        Dispatched(n) /\ TornDown(n) => calls[n].outcome.state = "rejected"

(* C9: a placeholder operation rejects with the not-implemented error for every
   operation and argument, with or without a session, and changes nothing else:
   nothing is sent, no call or resolve function is created, the session stays *)
C9_PlaceholderRejects ==
    [][Len(placeholders') > Len(placeholders) =>
          /\ placeholders'[Len(placeholders')].outcome = Rejected(NotImplementedMessage)
          /\ UNCHANGED <<serverAndClient, onMessage, created, clientId, idToResolveMap,
                         calls, sent, logger>>]_vars

\* a placeholder was called while a session was active and a call was pending
C9_Witness ==
    /\ Len(placeholders) >= 1
    /\ placeholders[1].outcome = Rejected(NotImplementedMessage)
    /\ serverAndClient # 0
    /\ \E n \in DOMAIN calls : calls[n].outcome = Pending /\ calls[n].inst = serverAndClient

(* C10: the request envelopes reach Transport.send in the order of the _request()
   calls: the k-th request passed to Transport.send is the one of the k-th dispatched
   call, whatever was delivered or answered in between *)
IsRequestSend(e) == e.call # 0

C10_DispatchOrder ==
    LET reqs == SelectSeq(sent, IsRequestSend)
    IN  /\ \A i, j \in DOMAIN reqs : i < j => reqs[i].call < reqs[j].call
        /\ \A n \in DOMAIN calls : Dispatched(n) =>
              \E k \in DOMAIN reqs : reqs[k].call = n /\ reqs[k].msg.id = calls[n].id

\* two calls were dispatched, an inbound request was answered between them and the
\* first call was settled before the second was issued
C10_Witness ==
    /\ Len(sent) = 3
    /\ sent[1].call = 1 /\ sent[2].call = 0 /\ sent[3].call = 2
    /\ calls[1].outcome.state = "resolved"
    /\ calls[2].inst = calls[1].inst

(* C11 as stated: this.serverAndClient names at most one instance, and after a
   connect() called while a session was active every later _request() is dispatched
   through the instance that connect() created (or a later one) and never through a
   prior one, and a delivered message changes no call of a prior instance *)
\* the instance the connect() at lifecycle position k created
InstanceOf(k) == Cardinality({j \in 1..k : lifecycle[j].ev = "connect"})

\* call n was issued after the connect() at position k, called while a session was active
IssuedAfterReconnect(n, k) ==
    /\ lifecycle[k].ev = "connect"
    /\ ActiveAfter(k - 1) # 0
    /\ calls[n].at >= k

C11_ReplacesPriorSession ==
    /\ [](/\ serverAndClient \in 0..created
          /\ \A n \in DOMAIN calls, k \in DOMAIN lifecycle :
                IssuedAfterReconnect(n, k) /\ Dispatched(n) => calls[n].inst >= InstanceOf(k))
    /\ [][DeliverStep => \A n \in DOMAIN calls :
                            calls[n].inst < created => calls'[n] = calls[n]]_vars

(* C12: a listAccounts() whose response is a sequence of N raw accounts resolves
   with exactly N accounts, and element i of the result is deserializeAccount
   applied to element i of the response, for every N from 0 on *)
C12_ListAccounts ==
    \A n \in DOMAIN calls :
        calls[n].op = "listAccounts" /\ calls[n].response.kind = "result"
                                     /\ calls[n].send # "pending" =>
            LET rawAccounts == calls[n].response.val
                accounts == calls[n].result
            IN  /\ accounts.state = "resolved"
                /\ Len(accounts.value) = Len(rawAccounts)
                /\ \A i \in 1..Len(rawAccounts) :
                      accounts.value[i] = DeserializeAccount(rawAccounts[i])

\* one listAccounts() answered with no account, another with two different accounts
C12_Witness ==
    /\ Len(calls) = 2
    /\ calls[1].op = "listAccounts" /\ calls[1].result = Resolved(<<>>)
    /\ calls[2].op = "listAccounts" /\ calls[2].result.state = "resolved"
    /\ calls[2].response.val = <<[id |-> "acc-2", balance |-> "100"],
                                 [id |-> "acc-1", balance |-> "0"]>>
    /\ calls[2].result.value[1].id = "acc-2"

(* C13: an implemented operation called on an active session hands Transport.send
   exactly one request envelope, with the operation's method name and parameters:
   receive "account.receive" with {accountId}; signTransaction "transaction.sign" with
   the serialized transaction, not the one it was given; broadcastSignedTransaction
   "transaction.broadcast" with the serialized signed transaction.  A receive()
   answered by a result resolves with that string, a signTransaction() answered by an
   error rejects with the host's message *)
EnvelopesOf(n) == {k \in DOMAIN sent : sent[k].call = n}

C13_Envelopes ==
    \A n \in DOMAIN calls :
        LET c == calls[n]
        IN  /\ Cardinality(EnvelopesOf(n)) = IF Dispatched(n) THEN 1 ELSE 0
            /\ \A k \in EnvelopesOf(n) :
                  /\ sent[k].msg.kind = "request"
                  /\ sent[k].msg.id = c.id
                  /\ c.op = "receive" =>
                        /\ sent[k].msg.val = "account.receive"
                        /\ sent[k].params = [accountId |-> c.args.accountId]
                  /\ c.op = "signTransaction" =>
                        /\ sent[k].msg.val = "transaction.sign"
                        /\ sent[k].params.accountId = c.args.accountId
                        /\ sent[k].params.transaction = SerializeTransaction(c.args.transaction)
                        /\ sent[k].params.transaction # c.args.transaction
                  /\ c.op = "broadcastSignedTransaction" =>
                        /\ sent[k].msg.val = "transaction.broadcast"
                        /\ sent[k].params.accountId = c.args.accountId
                        /\ sent[k].params.signedTransaction =
                              SerializeSignedTransaction(c.args.signedTransaction)
            /\ c.op = "receive" /\ c.send # "pending" /\ c.response.kind = "result" =>
                  c.result = Resolved(c.response.val)
            /\ c.op = "signTransaction" /\ c.send # "pending" /\ c.response.kind = "error" =>
                  c.result = Rejected(c.response.val)

\* a signTransaction() was rejected by the host's error and a receive() resolved
\* with the address the host answered
C13_Witness ==
    /\ Len(calls) = 2 /\ Len(sent) = 2
    /\ calls[1].op = "signTransaction" /\ calls[1].result = Rejected("User denied")
    /\ sent[1].params.transaction.amount = "100"
    /\ calls[1].args.transaction.amount = "BigNumber(100)"
    /\ calls[2].op = "receive" /\ calls[2].args.accountId = "acc-2"
    /\ calls[2].result.state = "resolved" /\ calls[2].result.value = "0xABC"

(* C14 as stated: once disconnect() has dropped the session of a call that is still
   pending, that call's promise is never resolved or rejected, whatever the Transport
   delivers later *)
\* a disconnect() called after call n was issued dropped the session of call n
Dropped(n) ==
    /\ Dispatched(n)
    /\ \E k \in DOMAIN lifecycle :
          /\ lifecycle[k].ev = "disconnect"
          /\ k > calls[n].at
          /\ ActiveAfter(k - 1) = calls[n].inst

DisconnectStep == Len(disconnects') > Len(disconnects)

LogsIn(events, lvl) ==
    Cardinality({k \in DOMAIN events : events[k].ev = "log" /\ events[k].lvl = lvl})

RECURSIVE LogsOfCalls(_, _)
LogsOfCalls(n, lvl) ==
    IF n = 0 THEN 0 ELSE LogsIn(calls[n].events, lvl) + LogsOfCalls(n - 1, lvl)

C15_LoggingBrackets ==
    /\ \A n \in DOMAIN calls :
          LET c == calls[n]
              issued == <<LogEvent("log", "request"), SendEvent>>
          IN  IF Dispatched(n)
              THEN /\ c.outcome.state = "pending" => c.events = issued
                   /\ c.outcome.state = "resolved" =>
                         /\ c.events = issued \o <<LogEvent("log", "response"), ApiEvent("return")>>
                         /\ c.response.kind = "result"
                         /\ c.outcome.value = c.response.val
                   /\ c.outcome.state = "rejected" =>
                         /\ c.events = issued \o <<LogEvent("warn", "error"), ApiEvent("throw")>>
                         /\ c.response.kind = "error"
                         /\ c.outcome.value = c.response.val
              ELSE /\ c.events = <<LogEvent("error", "not connected"), ApiEvent("throw")>>
                   /\ c.outcome = Rejected(NotConnectedMessage)
    /\ \A lvl \in DOMAIN logger :
          logger[lvl] = LogsOfCalls(Len(calls), lvl) + LogsIn(lifecycle, lvl)

\* one call resolved by the host's result, another rejected by its send failure
C15_Witness ==
    /\ Len(calls) = 2
    /\ calls[1].inst = calls[2].inst /\ Dispatched(1)
    /\ calls[1].outcome = Resolved("0xABC")
    /\ calls[2].outcome = Rejected(SendFailure)
    /\ logger["warn"] = 1 /\ logger["error"] = 0

(* C16 as stated: a response produced for a call of an earlier session never settles
   a call of a later session: when the Transport delivers a response that carries the
   id of a dispatched call of an earlier instance that has had no response yet, it is
   handled as unmatched and no call changes, also when a call of the instance now
   bound to onMessage waits under the same id *)
AnswersEarlierSession(n, msg) ==
    /\ Dispatched(n)
    /\ calls[n].inst < onMessage
    /\ calls[n].response.kind = "none"
    /\ msg.kind \in {"result", "error"}
    /\ msg.id = calls[n].id

C16_NoCrossSessionSettlement ==
    [][DeliverStep /\ (\E n \in DOMAIN calls : AnswersEarlierSession(n, lastRecv'.msg)) =>
          /\ lastRecv'.hit = {}
          /\ calls' = calls
          /\ idToResolveMap' = idToResolveMap]_vars

(* C17 as stated: whenever this.serverAndClient is set, the Transport's onMessage is
   the receiveAndSend of that same instance *)
C17_CallbackOfActiveSession ==
    serverAndClient # 0 => onMessage = serverAndClient

(* C18 as stated: a settled promise never changes again, and a further response
   carrying the id of a call that is already settled is handled as unmatched: it
   reaches no resolve function and changes no call *)
RepeatsSettledId(msg) ==
    /\ msg.kind \in {"result", "error"}
    /\ \E n \in DOMAIN calls :
          Dispatched(n) /\ calls[n].outcome.state # "pending" /\ calls[n].id = msg.id

C18_SettlesAtMostOnce ==
    [][/\ \A n \in DOMAIN calls :
            calls[n].outcome.state # "pending" => calls'[n].outcome = calls[n].outcome
       /\ DeliverStep /\ RepeatsSettledId(lastRecv'.msg) =>
            /\ lastRecv'.hit = {}
            /\ calls' = calls]_vars

(* C19: when Transport.disconnect() fails during disconnect(), the session is
   dropped all the same and the promise disconnect() returned is rejected for good;
   'disconnected' is logged for the disconnect() calls that completed and for no
   other; a _request() issued after the failed disconnect(), with no connect() in
   between, rejects with the not-connected error and sends nothing *)
\* the disconnect() calls among the first k lifecycle events
DisconnectsUpTo(k) == Cardinality({j \in 1..k : lifecycle[j].ev = "disconnect"})

\* call n was issued after a disconnect() whose Transport.disconnect() failed, with
\* no connect() in between
AfterFailedDisconnect(n) ==
    /\ AfterDisconnect(n)
    /\ LET last == CHOOSE j \in ApiPositions(calls[n].at) :
                       \A i \in ApiPositions(calls[n].at) : i <= j
       IN  lifecycle[last] = DisconnectEvent(FALSE)

C19_FailedDisconnect ==
    /\ [](/\ \A k \in DOMAIN lifecycle :
                lifecycle[k] = DisconnectEvent(FALSE) =>
                    disconnects[DisconnectsUpTo(k)] = "rejected"
          /\ LogsIn(lifecycle, "log")
                = Cardinality({j \in DOMAIN lifecycle : lifecycle[j].ev = "connect"
                                                         /\ ConnectedAt(j)})
                  + Cardinality({d \in DOMAIN disconnects : disconnects[d] = "resolved"})
          /\ \A n \in DOMAIN calls : AfterFailedDisconnect(n) => RefusedNotConnected(n))
    /\ [][DisconnectStep /\ lifecycle'[Len(lifecycle')] = DisconnectEvent(FALSE) =>
             /\ serverAndClient' = 0
             /\ logger' = logger
             /\ sent' = sent]_vars

\* a session was active, the disconnect() that dropped it failed, and a call issued
\* after it was refused
C19_Witness ==
    \E n \in DOMAIN calls :
        /\ AfterFailedDisconnect(n)
        /\ ActiveAfter(calls[n].at - 1) # 0
        /\ disconnects = <<"rejected">>
        /\ calls[n].outcome = Rejected(NotConnectedMessage)
        /\ \A j \in DOMAIN lifecycle : lifecycle[j] # LogEvent("log", "disconnected")

=============================================================================
